---- MODULE Spec2Model ----
(***************************************************************************)
(* The relay server of src/server.js: four POST routes that validate one   *)
(* field, make one outbound call to the generative-AI provider and reshape *)
(* its answer, behind the express.static / cors / express.json middleware. *)
(*                                                                         *)
(* Text (an HTTP body, the content of a JavaScript string) is a sequence   *)
(* of tokens: W(w) is a run of plain characters; the other tokens are the  *)
(* lexemes of JSON.  Whitespace between lexemes and the escapes inside a   *)
(* string literal are not represented.                                     *)
(***************************************************************************)
EXTENDS Integers, Sequences, FiniteSets, TLC

\* ----------------------------------------------------------------------
\* Bounds of the model
\* ----------------------------------------------------------------------
\* Requests the server handles concurrently.
NumReqs == 2
\* Longest list of web search queries in a provider response.
MaxQueries == 2
\* Longest array or object in a JSON text of the provider.
MaxElems == 2

\* ----------------------------------------------------------------------
\* JavaScript values
\* ----------------------------------------------------------------------
Undefined == [k |-> "undefined"]
Null == [k |-> "null"]
Bool(b) == [k |-> "bool", b |-> b]
\* A finite Number m * 10^e, kept normalised (m not a multiple of 10, or 0).
Number(m, e) == [k |-> "num", m |-> m, e |-> e]
\* +Infinity or -Infinity.
Infinity(neg) == [k |-> "inf", neg |-> neg]
\* A string; s is its text.
Str(s) == [k |-> "str", s |-> s]
Arr(items) == [k |-> "arr", items |-> items]
\* An object: its own properties <<key text, value>> in insertion order.
Obj(members) == [k |-> "obj", members |-> members]

\* Tokens of text.
W(w) == [tk |-> "raw", w |-> w]
P(c) == [tk |-> "p", c |-> c]
Lit(l) == [tk |-> "lit", l |-> l]
NumTok(m, e) == [tk |-> "num", m |-> m, e |-> e]
StrTok(s) == [tk |-> "str", s |-> s]

\* The text of a literal run of characters; the empty string has no token.
Text(w) == IF w = "" THEN <<>> ELSE <<W(w)>>
\* A string value with the given characters.
S(w) == Str(Text(w))

\* ToBoolean: undefined, null, false, 0 and "" are falsy.
Truthy(v) ==
    CASE v.k = "undefined" -> FALSE
      [] v.k = "null" -> FALSE
      [] v.k = "bool" -> v.b
      [] v.k = "num" -> v.m # 0
      [] v.k = "str" -> v.s # <<>>
      [] OTHER -> TRUE

IsNullish(v) == v.k \in {"undefined", "null"}

\* o[key] for a value o that is neither undefined nor null: the own property
\* of an object, undefined for a missing property or a primitive.
Get(o, key) ==
    IF o.k = "obj" /\ \E i \in DOMAIN o.members : o.members[i][1] = Text(key)
    THEN LET i == CHOOSE j \in DOMAIN o.members : o.members[j][1] = Text(key)
         IN o.members[i][2]
    ELSE Undefined

\* o[n] (n counted from 0) for a value o that is neither undefined nor null.
At(o, n) ==
    IF o.k = "arr" /\ n + 1 \in DOMAIN o.items THEN o.items[n + 1] ELSE Undefined

\* o?.[key] and o?.key: undefined when o is undefined or null.
OptGet(o, key) == IF IsNullish(o) THEN Undefined ELSE Get(o, key)
OptAt(o, n) == IF IsNullish(o) THEN Undefined ELSE At(o, n)

\* ----------------------------------------------------------------------
\* Numbers: a literal m * 10^e and the double it is read as
\* ----------------------------------------------------------------------
RECURSIVE Pow10(_)
Pow10(n) == IF n <= 0 THEN 1 ELSE 10 * Pow10(n - 1)

Abs(n) == IF n < 0 THEN -n ELSE n

\* Number of decimal digits of n # 0.
RECURSIVE Digits(_)
Digits(n) == IF Abs(n) < 10 THEN 1 ELSE 1 + Digits(Abs(n) \div 10)

\* m * 10^e with the trailing zeros of m moved into the exponent.
RECURSIVE Normal(_, _)
Normal(m, e) ==
    IF m = 0 THEN <<0, 0>>
    ELSE IF m % 10 = 0 THEN Normal(m \div 10, e + 1)
    ELSE <<m, e>>

\* The double a number literal m * 10^e is read as (mantissas of at most
\* nine digits: they survive the conversion to binary and back exactly
\* while the value is in the normal range).  Number.MAX_VALUE is
\* 1.7976931348623157e308: a larger literal is read as Infinity; a literal
\* below Number.MIN_VALUE (5e-324) is read as 0.
NumberValue(m, e) ==
    LET n == Normal(m, e)
        d == n[2] + Digits(n[1]) - 1          \* decimal exponent of the value
        lead == Abs(n[1]) * Pow10(9 - Digits(n[1]))
    IN IF n[1] = 0 THEN Number(0, 0)
       ELSE IF d > 308 \/ (d = 308 /\ lead > 179769313)
            THEN Infinity(n[1] < 0)
       ELSE IF d < -324 THEN Number(0, 0)
       ELSE Number(n[1], n[2])

\* Number::toString as JSON.stringify uses it: plain digits for an integer
\* below 10^21, otherwise mantissa and exponent.
NumberToken(v) ==
    IF v.e > 0 /\ v.e + Digits(v.m) <= 21
    THEN NumTok(v.m * Pow10(v.e), 0)
    ELSE NumTok(v.m, v.e)

\* ----------------------------------------------------------------------
\* JSON.parse
\* ----------------------------------------------------------------------
Fail == [ok |-> FALSE]
Parsed(v, rest) == [ok |-> TRUE, val |-> v, rest |-> rest]

\* Defining property key of an object under construction: a repeated key
\* keeps its place and takes the later value.
DefineMember(members, key, val) ==
    IF \E i \in DOMAIN members : members[i][1] = key
    THEN [i \in DOMAIN members |->
            IF members[i][1] = key THEN <<key, val>> ELSE members[i]]
    ELSE Append(members, <<key, val>>)

RECURSIVE ParseValue(_), ParseElements(_, _), ParseMembers(_, _)
ParseValue(ts) ==
    IF ts = <<>> THEN Fail
    ELSE LET h == ts[1]
             rest == Tail(ts)
         IN CASE h.tk = "str" -> Parsed(Str(h.s), rest)
              [] h.tk = "num" -> Parsed(NumberValue(h.m, h.e), rest)
              [] h.tk = "lit" ->
                    Parsed(IF h.l = "null" THEN Null ELSE Bool(h.l = "true"), rest)
              [] h.tk = "p" /\ h.c = "[" ->
                    IF rest # <<>> /\ rest[1] = P("]")
                    THEN Parsed(Arr(<<>>), Tail(rest))
                    ELSE ParseElements(rest, <<>>)
              [] h.tk = "p" /\ h.c = "{" ->
                    IF rest # <<>> /\ rest[1] = P("}")
                    THEN Parsed(Obj(<<>>), Tail(rest))
                    ELSE ParseMembers(rest, <<>>)
              [] OTHER -> Fail

ParseElements(ts, acc) ==
    LET v == ParseValue(ts)
    IN IF ~v.ok \/ v.rest = <<>> THEN Fail
       ELSE IF v.rest[1] = P(",") THEN ParseElements(Tail(v.rest), Append(acc, v.val))
       ELSE IF v.rest[1] = P("]") THEN Parsed(Arr(Append(acc, v.val)), Tail(v.rest))
       ELSE Fail

ParseMembers(ts, acc) ==
    IF Len(ts) < 3 \/ ts[1].tk # "str" \/ ts[2] # P(":") THEN Fail
    ELSE LET v == ParseValue(SubSeq(ts, 3, Len(ts)))
         IN IF ~v.ok \/ v.rest = <<>> THEN Fail
            ELSE LET members == DefineMember(acc, ts[1].s, v.val)
                 IN IF v.rest[1] = P(",") THEN ParseMembers(Tail(v.rest), members)
                    ELSE IF v.rest[1] = P("}") THEN Parsed(Obj(members), Tail(v.rest))
                    ELSE Fail

\* JSON.parse(text): the value, or ok = FALSE where it throws a SyntaxError.
JSONparse(text) ==
    LET v == ParseValue(text)
    IN IF v.ok /\ v.rest = <<>> THEN [ok |-> TRUE, val |-> v.val] ELSE Fail

\* ----------------------------------------------------------------------
\* JSON.stringify
\* ----------------------------------------------------------------------
RECURSIVE JSONstringify(_), StringifyItems(_, _), StringifyMembers(_, _, _)
\* The text of a value; the empty text stands for the result undefined.
JSONstringify(v) ==
    CASE v.k = "undefined" -> <<>>
      [] v.k = "null" -> <<Lit("null")>>
      [] v.k = "bool" -> <<Lit(IF v.b THEN "true" ELSE "false")>>
      [] v.k = "num" -> <<NumberToken(v)>>
      [] v.k = "inf" -> <<Lit("null")>>
      [] v.k = "str" -> <<StrTok(v.s)>>
      [] v.k = "arr" -> <<P("[")>> \o StringifyItems(v.items, 1) \o <<P("]")>>
      [] v.k = "obj" -> <<P("{")>> \o StringifyMembers(v.members, 1, TRUE) \o <<P("}")>>

\* Array elements from index i: undefined is written as null.
StringifyItems(items, i) ==
    IF i > Len(items) THEN <<>>
    ELSE (IF i > 1 THEN <<P(",")>> ELSE <<>>)
         \o (IF items[i].k = "undefined" THEN <<Lit("null")>> ELSE JSONstringify(items[i]))
         \o StringifyItems(items, i + 1)

\* Object members from index i: a property whose value is undefined is left out.
StringifyMembers(members, i, first) ==
    IF i > Len(members) THEN <<>>
    ELSE IF members[i][2].k = "undefined" THEN StringifyMembers(members, i + 1, first)
    ELSE (IF first THEN <<>> ELSE <<P(",")>>)
         \o <<StrTok(members[i][1]), P(":")>>
         \o JSONstringify(members[i][2])
         \o StringifyMembers(members, i + 1, FALSE)


\* ----------------------------------------------------------------------
\* Strings
\* ----------------------------------------------------------------------
\* The characters of a text made of plain runs.
RECURSIVE Chars(_)
Chars(s) == IF s = <<>> THEN "" ELSE s[1].w \o Chars(Tail(s))

\* The characters encodeURIComponent leaves as they are.
Unreserved ==
    "ABCDEFGHIJKLMNOPQRSTUVWXYZabcdefghijklmnopqrstuvwxyz0123456789-_.!~*'()"

\* The escape of one ASCII character that is not left as it is.
PercentCode(c) ==
    CASE c = " " -> "%20" [] c = "#" -> "%23"
      [] c = "$" -> "%24" [] c = "%" -> "%25" [] c = "&" -> "%26"
      [] c = "+" -> "%2B" [] c = "," -> "%2C" [] c = "/" -> "%2F"
      [] c = ":" -> "%3A" [] c = ";" -> "%3B" [] c = "<" -> "%3C"
      [] c = "=" -> "%3D" [] c = ">" -> "%3E" [] c = "?" -> "%3F"
      [] c = "@" -> "%40" [] c = "[" -> "%5B" [] c = "]" -> "%5D"
      [] c = "^" -> "%5E" [] c = "{" -> "%7B"
      [] c = "|" -> "%7C" [] c = "}" -> "%7D"

\* encodeURIComponent on the characters w of a well-formed ASCII string.
RECURSIVE encodeURIComponent(_)
encodeURIComponent(w) ==
    IF w = "" THEN ""
    ELSE LET c == SubSeq(w, 1, 1)
         IN (IF \E i \in 1..Len(Unreserved) : SubSeq(Unreserved, i, i) = c
             THEN c ELSE PercentCode(c))
            \o encodeURIComponent(SubSeq(w, 2, Len(w)))

\* s ends with the characters suffix.
EndsWith(s, suffix) ==
    Len(s) >= Len(suffix) /\ SubSeq(s, Len(s) - Len(suffix) + 1, Len(s)) = suffix

\* Text sub occurs in text s.
Contains(s, sub) ==
    \E i \in 0..(Len(s) - Len(sub)) : SubSeq(s, i + 1, i + Len(sub)) = sub

\* A property of an object literal.
Prop(key, v) == <<Text(key), v>>

\* ----------------------------------------------------------------------
\* What a stretch of a handler between two awaits ends in
\* ----------------------------------------------------------------------
\* res.status(status).json(obj)
Send(status, obj) == [type |-> "send", status |-> status, body |-> JSONstringify(obj)]
\* await of an outbound call to the provider
Call(op, request) == [type |-> "await", op |-> op, call |-> <<request>>]
\* await of response.text() or response.json()
Read(op) == [type |-> "await", op |-> op, call |-> <<>>]
\* throw new Error(message), or a rejected await
Throw(message) == [type |-> "throw", message |-> message]

\* A settled promise.
Resolved(v) == [ok |-> TRUE, val |-> v]
Rejected(message) == [ok |-> FALSE, message |-> message]

\* The message of the TypeError a property read of undefined or null throws.
CannotRead(v, key) ==
    Text("Cannot read properties of " \o v.k \o " (reading '" \o key \o "')")

\* A value as a template literal or String() spells it (primitives).
JsString(v) ==
    CASE v.k = "str" -> Chars(v.s)
      [] v.k = "undefined" -> "undefined"
      [] v.k = "null" -> "null"
      [] v.k = "bool" -> IF v.b THEN "true" ELSE "false"
      [] v.k = "num" /\ v.e = 0 -> ToString(v.m)

\* ----------------------------------------------------------------------
\* The routes
\* ----------------------------------------------------------------------
Chat == "/api/chat"
Sentiment == "/api/sentiment"
GenerateImage == "/api/generate-image"
Tts == "/api/tts"
Paths == {Chat, Sentiment, GenerateImage, Tts}

\* Caught with the catch block rethrowing: the exception leaves the handler.
CaughtRethrown(path, c) == c

\* The catch block of a handler: whatever the try block throws is answered
\* with 500, the route's message and the error's message.
Caught(path, c) ==
    IF c.type # "throw" THEN c
    ELSE Send(500, Obj(<<
            Prop("error", S(
                CASE path = Chat ->
                       "An internal server error occurred while analyzing the request."
                  [] path = Sentiment ->
                       "An internal server error occurred during structured sentiment analysis."
                  [] path = GenerateImage ->
                       "An internal server error occurred during image generation."
                  [] path = Tts ->
                       "An internal server error occurred during Text-to-Speech generation.")),
            Prop("details", Str(c.message)) >>))

\* --- /api/chat ---------------------------------------------------------
\* parts with the text part pushed before the file part.
partsTextFirst(prompt, file) ==
    <<Obj(<<Prop("text", prompt)>>)>>
    \o (IF Truthy(file)
        THEN <<Obj(<<Prop("inlineData", Obj(<<Prop("data", Get(file, "base64Data")),
                                              Prop("mimeType", Get(file, "mimeType"))>>))>>)>>
        ELSE <<>>)

\* The parts of the user content: the file first when there is one, then
\* the prompt.
parts(prompt, file) ==
    (IF Truthy(file)
     THEN <<Obj(<<Prop("inlineData", Obj(<<Prop("data", Get(file, "base64Data")),
                                           Prop("mimeType", Get(file, "mimeType"))>>))>>)>>
     ELSE <<>>)
    \o <<Obj(<<Prop("text", prompt)>>)>>

contents(prompt, file) ==
    <<Obj(<<Prop("role", S("user")), Prop("parts", Arr(parts(prompt, file)))>>)>>

GoogleSearch == Arr(<<Obj(<<Prop("googleSearch", Obj(<<>>))>>)>>)

\* chat with the prompt required only of a request without a file
\* (if (!prompt && !file)).
chatFileSkipsValidation(body) ==
    LET prompt == Get(body, "prompt")
        file == Get(body, "file")
    IN IF ~Truthy(prompt) /\ ~Truthy(file)
       THEN Send(400, Obj(<<Prop("error", S("Prompt is required."))>>))
       ELSE Call("generateContent",
                 Obj(<<Prop("model", S("gemini-2.5-flash")),
                       Prop("contents", Arr(contents(prompt, file))),
                       Prop("config", Obj(<<Prop("tools", GoogleSearch)>>))>>))

\* From the entry of the handler to its await of ai.models.generateContent.
chat(body) ==
    LET prompt == Get(body, "prompt")
        file == Get(body, "file")
    IN IF ~Truthy(prompt)
       THEN Send(400, Obj(<<Prop("error", S("Prompt is required."))>>))
       ELSE Call("generateContent",
                 Obj(<<Prop("model", S("gemini-2.5-flash")),
                       Prop("contents", Arr(contents(prompt, file))),
                       Prop("config", Obj(<<Prop("tools", GoogleSearch)>>))>>))

\* citation with the query put into the URL as it is.
citationUnencoded(query) ==
    Obj(<<Prop("uri", S("https://www.google.com/search?q=" \o JsString(query))),
          Prop("title", query)>>)

\* One web search query as a citation.
citation(query) ==
    Obj(<<Prop("uri", S("https://www.google.com/search?q="
                        \o encodeURIComponent(JsString(query)))),
          Prop("title", query)>>)

\* response.candidates?.[0]?.groundingMetadata?.webSearchQueries?.map(..) || []
citationSources(response) ==
    LET queries == OptGet(OptGet(OptAt(Get(response, "candidates"), 0),
                                 "groundingMetadata"), "webSearchQueries")
    IN IF IsNullish(queries) THEN Resolved(Arr(<<>>))
       ELSE IF queries.k = "arr"
            THEN Resolved(Arr([i \in DOMAIN queries.items |-> citation(queries.items[i])]))
       ELSE Rejected(Text("response.candidates?.[0]?.groundingMetadata"
                          \o "?.webSearchQueries?.map is not a function"))

\* After the await of generateContent.
chatSettled(settled) ==
    IF ~settled.ok THEN Throw(settled.message)
    ELSE LET sources == citationSources(settled.val)
         IN IF ~sources.ok THEN Throw(sources.message)
            ELSE Send(200, Obj(<<Prop("text", Get(settled.val, "text")),
                                 Prop("sources", sources.val)>>))

\* --- /api/sentiment ----------------------------------------------------
SENTIMENT_SCHEMA ==
    Obj(<<Prop("type", S("OBJECT")),
          Prop("properties", Obj(<<
              Prop("asset", Obj(<<Prop("type", S("STRING"))>>)),
              Prop("sentiment_score", Obj(<<Prop("type", S("NUMBER"))>>)),
              Prop("key_drivers", Obj(<<Prop("type", S("ARRAY")),
                                        Prop("items", Obj(<<Prop("type", S("STRING"))>>))>>)),
              Prop("summary", Obj(<<Prop("type", S("STRING"))>>)) >>)),
          Prop("required", Arr(<<S("asset"), S("sentiment_score"),
                                 S("key_drivers"), S("summary")>>))>>)

sentiment(body) ==
    LET asset == Get(body, "asset")
        prompt == Str(Text("Analyze the current market sentiment, key drivers, "
                           \o "and outlook for the asset: **")
                      \o Text(JsString(asset))
                      \o Text("**. Search the web for real-time data and news."))
    IN IF ~Truthy(asset)
       THEN Send(400, Obj(<<Prop("error",
                                 S("Asset name is required for sentiment analysis."))>>))
       ELSE Call("generateContent",
                 Obj(<<Prop("model", S("gemini-2.5-flash")),
                       Prop("contents", Arr(<<Obj(<<
                            Prop("role", S("user")),
                            Prop("parts", Arr(<<Obj(<<Prop("text", prompt)>>)>>))>>)>>)),
                       Prop("config", Obj(<<Prop("tools", GoogleSearch),
                                            Prop("responseMimeType", S("application/json")),
                                            Prop("responseSchema", SENTIMENT_SCHEMA)>>))>>))

\* JSON.parse(response.text): a text that is undefined is read as the
\* characters "undefined", which are no JSON.
structuredData(response) ==
    LET text == Get(response, "text")
    IN IF text.k = "str" THEN JSONparse(text.s) ELSE Fail

\* sentimentSettled with the text sent on without JSON.parse
\* (res.json(response.text)).
sentimentSettledUnparsed(settled) ==
    IF ~settled.ok THEN Throw(settled.message)
    ELSE Send(200, Get(settled.val, "text"))

sentimentSettled(settled) ==
    IF ~settled.ok THEN Throw(settled.message)
    ELSE LET data == structuredData(settled.val)
         IN IF ~data.ok THEN Throw(Text("Unexpected token in JSON"))
            ELSE Send(200, data.val)

\* --- /api/generate-image -----------------------------------------------
\* fetch(url, {method: 'POST', headers, body: JSON.stringify(payload)})
Fetch(url, payload) ==
    Call("fetch",
         Obj(<<Prop("url", S(url \o "?key=API_KEY")),
               Prop("method", S("POST")),
               Prop("headers", Obj(<<Prop("Content-Type", S("application/json"))>>)),
               Prop("body", Str(JSONstringify(payload)))>>))

generateImage(body) ==
    LET prompt == Get(body, "prompt")
    IN IF ~Truthy(prompt)
       THEN Send(400, Obj(<<Prop("error", S("Image prompt is required."))>>))
       ELSE Fetch("https://generativelanguage.googleapis.com/v1beta/models/"
                  \o "imagen-3.0-generate-002:generateImages",
                  Obj(<<Prop("prompt", prompt),
                        Prop("config", Obj(<<Prop("numberOfImages", Number(1, 0)),
                                             Prop("aspectRatio", S("1:1"))>>))>>))

\* fetchSettled without the test of response.ok.
fetchSettledUnchecked(settled) ==
    IF ~settled.ok THEN Throw(settled.message) ELSE Read("json")

\* After the await of fetch: the body is read as text when the status is
\* not a success, as JSON otherwise.
fetchSettled(settled) ==
    IF ~settled.ok THEN Throw(settled.message)
    ELSE IF ~settled.val.ok THEN Read("text")
    ELSE Read("json")

\* After the await of response.text().
generateImageText(errorText) == Throw(Text("Imagen API Failed: ") \o errorText)

\* After the await of response.json():
\* data.generatedImages[0].image.imageBytes
generateImageJson(settled) ==
    IF ~settled.ok THEN Throw(settled.message)
    ELSE LET data == settled.val
             generatedImages == Get(data, "generatedImages")
             first == At(generatedImages, 0)
             image == Get(first, "image")
         IN IF IsNullish(data) THEN Throw(CannotRead(data, "generatedImages"))
            ELSE IF IsNullish(generatedImages) THEN Throw(CannotRead(generatedImages, "0"))
            ELSE IF IsNullish(first) THEN Throw(CannotRead(first, "image"))
            ELSE IF IsNullish(image) THEN Throw(CannotRead(image, "imageBytes"))
            ELSE Send(200, Obj(<<Prop("base64Image", Get(image, "imageBytes"))>>))

\* --- /api/tts ----------------------------------------------------------
tts(body) ==
    LET text == Get(body, "text")
    IN IF ~Truthy(text)
       THEN Send(400, Obj(<<Prop("error", S("Text is required for TTS."))>>))
       ELSE Fetch("https://generativelanguage.googleapis.com/v1beta/models/"
                  \o "gemini-2.5-flash-preview-tts:generateContent",
                  Obj(<<Prop("contents",
                             Arr(<<Obj(<<Prop("parts",
                                              Arr(<<Obj(<<Prop("text", text)>>)>>))>>)>>)),
                        Prop("generationConfig", Obj(<<
                            Prop("responseModalities", Arr(<<S("AUDIO")>>)),
                            Prop("speechConfig", Obj(<<Prop("voiceConfig", Obj(<<
                                Prop("prebuiltVoiceConfig",
                                     Obj(<<Prop("voiceName", S("Charon"))>>))>>))>>))>>))>>))

ttsText(errorText) == Throw(Text("TTS API Failed: ") \o errorText)

\* result?.candidates?.[0]?.content?.parts?.[0]
part(result) ==
    OptAt(OptGet(OptGet(OptAt(OptGet(result, "candidates"), 0), "content"), "parts"), 0)

\* missingInlineData testing the part alone (!part).
missingPart(result) == ~Truthy(part(result))

\* !part || !part.inlineData || !part.inlineData.data
missingInlineData(result) ==
    \/ ~Truthy(part(result))
    \/ ~Truthy(Get(part(result), "inlineData"))
    \/ ~Truthy(Get(Get(part(result), "inlineData"), "data"))

ttsJson(settled) ==
    IF ~settled.ok THEN Throw(settled.message)
    ELSE IF missingInlineData(settled.val)
         THEN Throw(Text("TTS response missing inline audio data."))
    ELSE LET inlineData == Get(part(settled.val), "inlineData")
         IN Send(200, Obj(<<Prop("audioData", Get(inlineData, "data")),
                            Prop("mimeType", Get(inlineData, "mimeType"))>>))

\* response.json(): the body parsed, or a rejection where it is no JSON.
json(body) ==
    LET v == JSONparse(body)
    IN IF v.ok THEN Resolved(v.val) ELSE Rejected(Text("Unexpected token in JSON"))

\* --- dispatch ------------------------------------------------------------
\* The route's handler up to its first await.
Handler(path, body) ==
    CASE path = Chat -> chat(body)
      [] path = Sentiment -> sentiment(body)
      [] path = GenerateImage -> generateImage(body)
      [] path = Tts -> tts(body)

\* AfterGenerateContent with one more attempt after a rejection.
AfterGenerateContentRetry(path, settled) ==
    IF ~settled.ok THEN Call("generateContent", Obj(<<Prop("model", S("gemini-2.5-flash"))>>))
    ELSE IF path = Chat THEN chatSettled(settled) ELSE sentimentSettled(settled)

\* The handler resumed when its generateContent call settles.
AfterGenerateContent(path, settled) ==
    IF path = Chat THEN chatSettled(settled) ELSE sentimentSettled(settled)

\* The handler resumed when response.text() resolves.
AfterText(path, errorText) ==
    IF path = GenerateImage THEN generateImageText(errorText) ELSE ttsText(errorText)

\* The handler resumed when response.json() settles.
AfterJson(path, settled) ==
    IF path = GenerateImage THEN generateImageJson(settled) ELSE ttsJson(settled)

\* ----------------------------------------------------------------------
\* The cors middleware
\* ----------------------------------------------------------------------
\* /\.vercel\.app$/
VercelApp == [k |-> "regexp", suffix |-> ".vercel.app"]

\* The origin option: the list with its falsy entries filtered out.
origin(frontendUrl) ==
    SelectSeq(<<S("http://127.0.0.1:5501"), S("http://localhost:3000"),
                S("http://localhost:5500"), VercelApp, frontendUrl>>, Truthy)

\* isOriginAllowed with the pattern written without its leading dot
\* (/vercel\.app$/).
isOriginAllowedNoDot(requestOrigin, allowedOrigin) ==
    \E i \in DOMAIN allowedOrigin :
        IF allowedOrigin[i].k = "str" THEN requestOrigin = allowedOrigin[i]
        ELSE IF allowedOrigin[i].k = "regexp"
             THEN EndsWith(JsString(requestOrigin), "vercel.app")
        ELSE Truthy(allowedOrigin[i])

\* The Origin header of a request matches an entry of the list: a string by
\* equality, the pattern by a test of the header spelled as a string.
isOriginAllowed(requestOrigin, allowedOrigin) ==
    \E i \in DOMAIN allowedOrigin :
        IF allowedOrigin[i].k = "str" THEN requestOrigin = allowedOrigin[i]
        ELSE IF allowedOrigin[i].k = "regexp"
             THEN EndsWith(JsString(requestOrigin), allowedOrigin[i].suffix)
        ELSE Truthy(allowedOrigin[i])

\* The Access-Control-Allow-Origin header the middleware sets: the request's
\* origin when it is allowed, none otherwise.
allowOrigin(requestOrigin, frontendUrl) ==
    IF isOriginAllowed(requestOrigin, origin(frontendUrl)) THEN requestOrigin ELSE Undefined

\* ----------------------------------------------------------------------
\* What the clients and the provider may send
\* ----------------------------------------------------------------------
\* Two universes of inputs: "basic" holds one input per behaviour and is used
\* where requests are handled concurrently; "full" is used where one request
\* is followed through every route.
Reqs == 1..NumReqs

SeqsUpTo(set, n) == UNION {[1..i -> set] : i \in 0..n}

Origins(u) ==
    IF u = "basic" THEN {S("http://localhost:5500"), S("http://evil.example")}
    ELSE {Undefined, S("http://127.0.0.1:5501"), S("http://localhost:3000"),
          S("http://localhost:5500"), S("http://evil.example"),
          S("https://market-sage.vercel.app"), S("https://vercel.app"),
          S("https://sage.example.com")}

FrontendUrls == {Undefined, S("https://sage.example.com")}

\* The required field of each route.
Required(path) ==
    CASE path = Chat -> "prompt" [] path = Sentiment -> "asset"
      [] path = GenerateImage -> "prompt" [] path = Tts -> "text"

File == Obj(<<Prop("base64Data", S("iVBORw0KGgo=")), Prop("mimeType", S("image/png"))>>)

\* Request bodies, as express.json hands them to the handler (a JSON object:
\* a request whose body express.json does not parse, or rejects, is not
\* modelled): the required field absent, null, empty or a text; a file or
\* another field beside it.
Bodies(u, path) ==
    LET fields == IF u = "basic" THEN {<<>>, <<Prop(Required(path), S("BTC/USD"))>>}
                  ELSE {<<>>, <<Prop(Required(path), Null)>>,
                        <<Prop(Required(path), S(""))>>,
                        <<Prop(Required(path), S("BTC/USD"))>>}
        others == IF path = Chat
                  THEN IF u = "basic" THEN {<<>>, <<Prop("file", File)>>}
                       ELSE {<<>>, <<Prop("file", Null)>>, <<Prop("file", File)>>}
                  ELSE IF u = "basic" THEN {<<>>} ELSE {<<>>, <<Prop("note", S("n"))>>}
    IN {Obj(f \o o) : f \in fields, o \in others}

\* Messages of the errors an outbound call rejects with.
Failures(u) ==
    IF u = "basic" THEN {Text("fetch failed")}
    ELSE {Text("fetch failed"), Text("got status: 503 Service Unavailable")}

Queries == {S("BTC price"), S("ETH news"), S("a&b=c/d?")}

Candidates(queries) ==
    Arr(<<Obj(<<Prop("groundingMetadata", Obj(<<Prop("webSearchQueries", queries)>>))>>)>>)

\* Responses of generateContent on the chat route.
ChatResponses(u) ==
    IF u = "basic"
    THEN {Obj(<<Prop("text", S("Bullish.")), Prop("candidates", Candidates(Arr(<<S("BTC price")>>)))>>),
          Obj(<<Prop("text", S("Bullish."))>>)}
    ELSE LET candidates ==
                 {<<>>, <<Prop("candidates", Arr(<<>>))>>,
                  <<Prop("candidates", Arr(<<Obj(<<>>)>>))>>,
                  <<Prop("candidates", Arr(<<Obj(<<Prop("groundingMetadata", Obj(<<>>))>>)>>))>>}
                 \cup {<<Prop("candidates", Candidates(Arr(q)))>> : q \in SeqsUpTo(Queries, MaxQueries)}
         IN {Obj(t \o c) : t \in {<<>>, <<Prop("text", S("Bullish."))>>}, c \in candidates}


RECURSIVE Joined(_, _)
\* The texts of items from index i, separated by commas.
Joined(items, i) ==
    IF i > Len(items) THEN <<>>
    ELSE (IF i > 1 THEN <<P(",")>> ELSE <<>>) \o items[i] \o Joined(items, i + 1)

\* The JSON text of an array of the given element texts.
ArrText(elems) == <<P("[")>> \o Joined(elems, 1) \o <<P("]")>>
\* The JSON text of an object of the given <<key, value text>> members.
ObjText(members) ==
    <<P("{")>>
    \o Joined([i \in DOMAIN members |-> <<StrTok(members[i][1]), P(":")>> \o members[i][2]], 1)
    \o <<P("}")>>

\* null, true, a string, -7.5, 4e2, 1e400 and 1e-400.
Scalars ==
    {<<Lit("null")>>, <<Lit("true")>>, <<StrTok(Text("BTC/USD"))>>,
     <<NumTok(-75, -1)>>, <<NumTok(4, 2)>>, <<NumTok(1, 400)>>, <<NumTok(1, -400)>>}

Keys == {Text("asset"), Text("sentiment_score")}

\* {"asset":"BTC/USD","sentiment_score":4,"key_drivers":["A","B"],"summary":"..."}
SentimentExample ==
    ObjText(<< <<Text("asset"), <<StrTok(Text("BTC/USD"))>> >>,
               <<Text("sentiment_score"), <<NumTok(4, 0)>> >>,
               <<Text("key_drivers"), ArrText(<< <<StrTok(Text("A"))>>, <<StrTok(Text("B"))>> >>)>>,
               <<Text("summary"), <<StrTok(Text("..."))>> >> >>)

\* Texts that are no JSON: prose, and an object cut short.
Malformed == {<<W("I cannot help with that.")>>, <<P("{"), StrTok(Text("asset")), P(":")>>}

\* Responses of generateContent on the sentiment route: the text is JSON,
\* or is not, or is missing.
SentimentResponses(u) ==
    IF u = "basic"
    THEN {Obj(<<Prop("text", Str(SentimentExample))>>),
          Obj(<<Prop("text", Str(<<W("I cannot help with that.")>>))>>)}
    ELSE {Obj(<<Prop("text", Str(t))>>) :
            t \in Scalars \cup Malformed \cup {SentimentExample}
                  \cup {ArrText(es) : es \in SeqsUpTo(Scalars, MaxElems)}
                  \cup {ObjText(ms) : ms \in SeqsUpTo(Keys \X Scalars, MaxElems)}}
         \cup {Obj(<<>>)}

GenerateContentResponses(u, path) ==
    IF path = Chat THEN ChatResponses(u) ELSE SentimentResponses(u)

\* A fetch Response: its status and its body.
Response(status, body) ==
    [ok |-> status >= 200 /\ status <= 299, status |-> status, body |-> body]

\* Bodies of provider error responses: plain text, and a JSON error.
ErrorBodies == {<<W("Permission denied.")>>,
                JSONstringify(Obj(<<Prop("error", Obj(<<Prop("status", S("PERMISSION_DENIED"))>>))>>))}

Generated(images) == Obj(<<Prop("generatedImages", images)>>)

\* Success payloads of the image endpoint: an image, and payloads lacking
\* one link or another of generatedImages[0].image.imageBytes.
ImagePayloads ==
    {Generated(Arr(<<Obj(<<Prop("image", Obj(<<Prop("imageBytes", S("aW1n"))>>))>>)>>)),
     Generated(Arr(<<Obj(<<Prop("image", Obj(<<>>))>>)>>)),
     Generated(Arr(<<Obj(<<>>)>>)),
     Generated(Arr(<<>>)),
     Obj(<<>>),
     Null}

Candidate(content) == Obj(<<Prop("candidates", Arr(<<Obj(content)>>))>>)
Parts(items) == Candidate(<<Prop("content", Obj(<<Prop("parts", Arr(items))>>))>>)
Inline(data) == Parts(<<Obj(<<Prop("inlineData", Obj(data))>>)>>)

\* Success payloads of the speech endpoint: inline audio with and without
\* its MIME type, and payloads lacking one link or another of
\* candidates[0].content.parts[0].inlineData.data.
TtsPayloads ==
    {Inline(<<Prop("data", S("UklGRg==")), Prop("mimeType", S("audio/L16;rate=24000"))>>),
     Inline(<<Prop("data", S("UklGRg=="))>>),
     Inline(<<Prop("mimeType", S("audio/L16;rate=24000"))>>),
     Inline(<<Prop("data", S("")), Prop("mimeType", S("audio/L16;rate=24000"))>>),
     Parts(<<Obj(<<Prop("text", S("no audio"))>>)>>),
     Parts(<<>>),
     Candidate(<<Prop("content", Obj(<<>>))>>),
     Candidate(<<>>),
     Obj(<<Prop("candidates", Arr(<<>>))>>),
     Obj(<<>>),
     Null}

\* Responses of fetch.
FetchResponses(u, path) ==
    IF u = "basic"
    THEN {Response(403, <<W("Permission denied.")>>),
          Response(200, JSONstringify(
              IF path = GenerateImage
              THEN Generated(Arr(<<Obj(<<Prop("image", Obj(<<Prop("imageBytes", S("aW1n"))>>))>>)>>))
              ELSE Inline(<<Prop("data", S("UklGRg==")),
                            Prop("mimeType", S("audio/L16;rate=24000"))>>))),
          Response(200, JSONstringify(Obj(<<>>)))}
    ELSE {Response(st, b) : st \in {403, 500}, b \in ErrorBodies}
         \cup {Response(200, JSONstringify(p)) :
                 p \in IF path = GenerateImage THEN ImagePayloads ELSE TtsPayloads}
         \cup {Response(200, <<W("<html>Bad gateway</html>")>>)}

\* ----------------------------------------------------------------------
\* State
\* ----------------------------------------------------------------------
VARIABLES
    FRONTEND_URL,   \* process.env.FRONTEND_URL, read once at startup
    req,            \* req[r]: the request r (method, Origin header, path, body)
    headers,        \* headers[r]: the Access-Control-Allow-Origin header set on res
    pc,             \* pc[r]: "idle", the await the handler of r is suspended at, or "done"
    out,            \* out[r]: the outbound calls made for r, in order
    response,       \* response[r]: what the awaited outbound call of r settled with
    res,            \* res[r]: the responses sent for r, in order
    uncaught        \* uncaught[r]: an exception left the handler of r

vars == <<FRONTEND_URL, req, headers, pc, out, response, res, uncaught>>

NoRequest == [method |-> "", origin |-> Undefined, path |-> "", body |-> Undefined]
Pending == [ok |-> FALSE, message |-> <<>>, pending |-> TRUE]

Init ==
    /\ FRONTEND_URL \in FrontendUrls
    /\ req = [r \in Reqs |-> NoRequest]
    /\ headers = [r \in Reqs |-> Undefined]
    /\ pc = [r \in Reqs |-> "idle"]
    /\ out = [r \in Reqs |-> <<>>]
    /\ response = [r \in Reqs |-> Pending]
    /\ res = [r \in Reqs |-> <<>>]
    /\ uncaught = [r \in Reqs |-> FALSE]

\* The handler of r reaches the end c of a stretch of its code: it is
\* suspended at an await (an outbound call is made first when the await is
\* of one), or it has sent a response (which carries the header allow that
\* the cors middleware set), or an exception has left it.
Settle(r, c, allow) ==
    /\ pc' = [pc EXCEPT ![r] = IF c.type = "await" THEN c.op ELSE "done"]
    /\ out' = [out EXCEPT ![r] = IF c.type = "await" THEN @ \o c.call ELSE @]
    /\ res' = [res EXCEPT ![r] =
                 IF c.type = "send"
                 THEN Append(@, [status |-> c.status, allowOrigin |-> allow,
                                 body |-> c.body])
                 ELSE @]
    /\ uncaught' = [uncaught EXCEPT ![r] = c.type = "throw"]

\* The preflight answer of the cors middleware.
Preflight == [type |-> "send", status |-> 204, body |-> <<>>]

\* A request arrives.  express.static passes on what is no GET or HEAD; the
\* cors middleware sets the header and answers an OPTIONS request itself;
\* express.json parses the body; the route's handler runs to its first
\* await or to its response.
Receive(r, u) ==
    /\ pc[r] = "idle"
    /\ \E method \in {"POST", "OPTIONS"}, o \in Origins(u), path \in Paths :
         \E body \in IF method = "POST" THEN Bodies(u, path) ELSE {Obj(<<>>)} :
            /\ req' = [req EXCEPT ![r] = [method |-> method, origin |-> o,
                                          path |-> path, body |-> body]]
            /\ headers' = [headers EXCEPT ![r] = allowOrigin(o, FRONTEND_URL)]
            /\ Settle(r, IF method = "OPTIONS" THEN Preflight
                         ELSE Caught(path, Handler(path, body)),
                      allowOrigin(o, FRONTEND_URL))
    /\ UNCHANGED <<FRONTEND_URL, response>>

\* The generateContent call of r resolves with a response.
GenerateContentResolves(r, u) ==
    /\ pc[r] = "generateContent"
    /\ \E v \in GenerateContentResponses(u, req[r].path) :
         /\ response' = [response EXCEPT ![r] = Resolved(v)]
         /\ Settle(r, Caught(req[r].path, AfterGenerateContent(req[r].path, Resolved(v))), headers[r])
    /\ UNCHANGED <<FRONTEND_URL, req, headers>>

\* The generateContent call of r rejects.
GenerateContentRejects(r, u) ==
    /\ pc[r] = "generateContent"
    /\ \E m \in Failures(u) :
         /\ response' = [response EXCEPT ![r] = Rejected(m)]
         /\ Settle(r, Caught(req[r].path, AfterGenerateContent(req[r].path, Rejected(m))), headers[r])
    /\ UNCHANGED <<FRONTEND_URL, req, headers>>

\* The fetch of r resolves with a response of the provider.
FetchResolves(r, u) ==
    /\ pc[r] = "fetch"
    /\ \E v \in FetchResponses(u, req[r].path) :
         /\ response' = [response EXCEPT ![r] = Resolved(v)]
         /\ Settle(r, Caught(req[r].path, fetchSettled(Resolved(v))), headers[r])
    /\ UNCHANGED <<FRONTEND_URL, req, headers>>

\* The fetch of r rejects: the network failed.
FetchRejects(r, u) ==
    /\ pc[r] = "fetch"
    /\ \E m \in Failures(u) :
         /\ response' = [response EXCEPT ![r] = Rejected(m)]
         /\ Settle(r, Caught(req[r].path, fetchSettled(Rejected(m))), headers[r])
    /\ UNCHANGED <<FRONTEND_URL, req, headers>>

\* response.text() of r resolves with the body.
TextResolves(r) ==
    /\ pc[r] = "text"
    /\ Settle(r, Caught(req[r].path, AfterText(req[r].path, response[r].val.body)), headers[r])
    /\ UNCHANGED <<FRONTEND_URL, req, headers, response>>

\* response.json() of r settles: the body parsed, or a SyntaxError.
JsonSettles(r) ==
    /\ pc[r] = "json"
    /\ Settle(r, Caught(req[r].path, AfterJson(req[r].path, json(response[r].val.body))), headers[r])
    /\ UNCHANGED <<FRONTEND_URL, req, headers, response>>

Step(r, u) ==
    \/ Receive(r, u)
    \/ GenerateContentResolves(r, u)
    \/ GenerateContentRejects(r, u)
    \/ FetchResolves(r, u)
    \/ FetchRejects(r, u)
    \/ TextResolves(r)
    \/ JsonSettles(r)

\* Requests handled concurrently.
Next == \E r \in Reqs : Step(r, "basic")
Spec == Init /\ [][Next]_vars

\* One request, every input.
NextOne == Step(1, "full")
SpecOne == Init /\ [][NextOne]_vars

\* ----------------------------------------------------------------------
\* Reading the state
\* ----------------------------------------------------------------------
Arrived(r) == req[r].method # ""
Posted(r) == req[r].method = "POST"
Done(r) == pc[r] = "done"
\* The one response of a finished request, and its body as a value.
Answer(r) == res[r][1]
AnswerJson(r) == JSONparse(Answer(r).body)
\* The outbound call of r has rejected / has resolved.
HasRejected(r) == ~response[r].ok /\ "pending" \notin DOMAIN response[r]
HasResolved(r) == response[r].ok

\* The characters sub occur in the characters w.
ContainsChars(w, sub) ==
    \E i \in 0..(Len(w) - Len(sub)) : SubSeq(w, i + 1, i + Len(sub)) = sub

\* The required field of the request is missing or empty.
FieldMissing(r) ==
    Get(req[r].body, Required(req[r].path)) \in {Undefined, Null, S("")}

\* The body is {error: message} or {error: message, details: message}.
HasErrorMessage(r) ==
    /\ AnswerJson(r).ok
    /\ Get(AnswerJson(r).val, "error").k = "str"
    /\ Get(AnswerJson(r).val, "error").s # <<>>

UpstreamError(r) ==
    /\ Answer(r).status = 500
    /\ HasErrorMessage(r)
    /\ Get(AnswerJson(r).val, "details").k = "str"
    /\ Len(AnswerJson(r).val.members) = 2

\* ----------------------------------------------------------------------
\* C1
\* ----------------------------------------------------------------------
\* C1: on each of the four POST routes a request whose required field is
\* missing or empty, whatever else its body holds, is answered 400 with an
\* error message and no outbound call is ever made for it; an outbound call
\* exists only for a request whose required field is present and non-empty.
C1_Validation ==
    \A r \in Reqs :
        Posted(r) =>
            /\ FieldMissing(r) =>
                   /\ out[r] = <<>>
                   /\ Done(r)
                   /\ Len(res[r]) = 1
                   /\ Answer(r).status = 400
                   /\ HasErrorMessage(r)
                   /\ Len(AnswerJson(r).val.members) = 1
            /\ out[r] # <<>> => ~FieldMissing(r)

\* A chat request that carries a file but no prompt has been answered 400.
C1_Witness ==
    \E r \in Reqs :
        /\ req[r].path = Chat
        /\ Get(req[r].body, "file") = File
        /\ Get(req[r].body, "prompt") = Undefined
        /\ Done(r)
        /\ Answer(r).status = 400

\* ----------------------------------------------------------------------
\* C2
\* ----------------------------------------------------------------------
\* The success payload of the image endpoint lacks generatedImages[0].image.
LacksImage(data) ==
    \/ data.k # "obj"
    \/ Get(data, "generatedImages").k # "arr"
    \/ Get(data, "generatedImages").items = <<>>
    \/ Get(Get(data, "generatedImages").items[1], "image").k # "obj"

\* A failure was raised while the validated request r was handled: the
\* outbound call rejected; the provider answered with an error status; the
\* sentiment text is no JSON; the body of a success response of the image or
\* speech endpoint is no JSON; the image payload lacks its image; the speech
\* payload lacks its part, its inline data or the data's content.
FailureRaised(r) ==
    \/ HasRejected(r)
    \/ /\ HasResolved(r)
       /\ req[r].path \in {GenerateImage, Tts}
       /\ ~response[r].val.ok
    \/ /\ HasResolved(r)
       /\ req[r].path = Tts
       /\ response[r].val.ok
       /\ JSONparse(response[r].val.body).ok
       /\ LET first == OptAt(OptGet(OptGet(OptAt(OptGet(
                            JSONparse(response[r].val.body).val,
                            "candidates"), 0), "content"), "parts"), 0)
          IN \/ first.k # "obj"
             \/ Get(first, "inlineData").k # "obj"
             \/ Get(Get(first, "inlineData"), "data") \in {Undefined, Null, S("")}
    \/ /\ HasResolved(r)
       /\ req[r].path = Sentiment
       /\ \/ Get(response[r].val, "text").k # "str"
          \/ ~JSONparse(Get(response[r].val, "text").s).ok
    \/ /\ HasResolved(r)
       /\ req[r].path \in {GenerateImage, Tts}
       /\ response[r].val.ok
       /\ ~JSONparse(response[r].val.body).ok
    \/ /\ HasResolved(r)
       /\ req[r].path = GenerateImage
       /\ response[r].val.ok
       /\ JSONparse(response[r].val.body).ok
       /\ LacksImage(JSONparse(response[r].val.body).val)

AllowListed(o) ==
    /\ o.k = "str"
    /\ \/ Chars(o.s) \in {"http://127.0.0.1:5501", "http://localhost:3000",
                          "http://localhost:5500"}
       \/ EndsWith(Chars(o.s), ".vercel.app")
       \/ FRONTEND_URL.k = "str" /\ FRONTEND_URL.s # <<>> /\ o = FRONTEND_URL

\* C3 as claimed: a request whose Origin is not on the allow-list is granted
\* no cross-origin access, is not served by a route handler and causes no
\* outbound call; a request whose Origin is on the list is accepted.
C3_OnlyAllowListedServed ==
    \A r \in Reqs :
        Arrived(r) =>
            IF AllowListed(req[r].origin)
            THEN headers[r] = req[r].origin
            ELSE /\ headers[r] = Undefined
                 /\ out[r] = <<>>
                 /\ \A i \in DOMAIN res[r] : res[r][i].status \notin {200, 400, 500}

\* C3 amended: the Access-Control-Allow-Origin header is set, to the
\* request's Origin, exactly for an allow-listed Origin, and every response
\* carries it so; an OPTIONS request is answered 204 by the middleware and
\* reaches no handler; a POST request reaches its route handler whatever its
\* Origin: it is answered 400 when its required field is missing or empty,
\* and one outbound call is made for it otherwise.
C3_HeaderOnlyForAllowListed ==
    \A r \in Reqs :
        Arrived(r) =>
            /\ headers[r] = IF AllowListed(req[r].origin) THEN req[r].origin ELSE Undefined
            /\ \A i \in DOMAIN res[r] : res[r][i].allowOrigin = headers[r]
            /\ req[r].method = "OPTIONS" =>
                   out[r] = <<>> /\ Len(res[r]) = 1 /\ Answer(r).status = 204
            /\ Posted(r) =>
                   IF FieldMissing(r) THEN out[r] = <<>> /\ Answer(r).status = 400
                   ELSE Len(out[r]) = 1

\* A POST from http://evil.example has caused an outbound call and has been
\* answered by the handler, without the header.
C3_Witness ==
    \E r \in Reqs :
        /\ req[r].origin = S("http://evil.example")
        /\ Posted(r)
        /\ out[r] # <<>>
        /\ Done(r)
        /\ Answer(r).status = 200
        /\ Answer(r).allowOrigin = Undefined

\* ----------------------------------------------------------------------
\* C4
\* ----------------------------------------------------------------------
\* The provider answered the fetch of r with a status that is no success.
ProviderErrorStatus(r) ==
    /\ req[r].path \in {GenerateImage, Tts}
    /\ HasResolved(r)
    /\ ~(response[r].val.status >= 200 /\ response[r].val.status <= 299)

\* C4: on the image and speech routes, once the provider has answered with a
\* status that is no success, the body is never read as a success payload,
\* and the relay's response is 500 with details containing the text of the
\* provider's body.
C4_ProviderErrorStatus ==
    \A r \in Reqs :
        ProviderErrorStatus(r) =>
            /\ pc[r] \in {"text", "done"}
            /\ Done(r) =>
                  /\ UpstreamError(r)
                  /\ Contains(Get(AnswerJson(r).val, "details").s, response[r].val.body)

\* The image endpoint answered 403 with a JSON error body and the relay has
\* answered 500.
C4_Witness ==
    \E r \in Reqs :
        /\ req[r].path = GenerateImage
        /\ ProviderErrorStatus(r)
        /\ response[r].val.status = 403
        /\ JSONparse(response[r].val.body).ok
        /\ Done(r)
        /\ Answer(r).status = 500

\* ----------------------------------------------------------------------
\* C5
\* ----------------------------------------------------------------------
\* The payload has candidates[0].content.parts[0].inlineData.data.
HasInlineData(result) ==
    /\ result.k = "obj"
    /\ Get(result, "candidates").k = "arr"
    /\ Get(result, "candidates").items # <<>>
    /\ LET content == Get(Get(result, "candidates").items[1], "content")
       IN /\ content.k = "obj"
          /\ Get(content, "parts").k = "arr"
          /\ Get(content, "parts").items # <<>>
          /\ LET inlineData == Get(Get(content, "parts").items[1], "inlineData")
             IN inlineData.k = "obj" /\ Get(inlineData, "data") # Undefined

\* The speech endpoint answered r with a success status and a JSON payload.
TtsPayload(r) ==
    /\ req[r].path = Tts
    /\ HasResolved(r)
    /\ response[r].val.ok
    /\ JSONparse(response[r].val.body).ok

\* C5: on the speech route, when the provider's success payload lacks
\* candidates[0].content.parts[0].inlineData.data, the relay's response is
\* 500 with details saying that the inline audio data is missing.
C5_MissingInlineData ==
    \A r \in Reqs :
        (TtsPayload(r) /\ Done(r) /\ ~HasInlineData(JSONparse(response[r].val.body).val)) =>
            /\ UpstreamError(r)
            /\ ContainsChars(Chars(Get(AnswerJson(r).val, "details").s),
                             "missing inline audio data")

\* The speech endpoint answered with an inline payload that has a MIME type
\* but no data, and the relay has answered 500.
C5_Witness ==
    \E r \in Reqs :
        /\ TtsPayload(r)
        /\ response[r].val.body =
              JSONstringify(Inline(<<Prop("mimeType", S("audio/L16;rate=24000"))>>))
        /\ Done(r)
        /\ Answer(r).status = 500

\* ----------------------------------------------------------------------
\* C6
\* ----------------------------------------------------------------------
\* Two JSON texts are the same but for the spelling of their numbers.
SameJson(a, b) ==
    /\ Len(a) = Len(b)
    /\ \A i \in DOMAIN a :
          IF a[i].tk = "num" /\ b[i].tk = "num"
          THEN Normal(a[i].m, a[i].e) = Normal(b[i].m, b[i].e)
          ELSE a[i] = b[i]

\* The provider answered the sentiment request r with a text that is JSON.
SentimentJson(r) ==
    /\ req[r].path = Sentiment
    /\ HasResolved(r)
    /\ Get(response[r].val, "text").k = "str"
    /\ JSONparse(Get(response[r].val, "text").s).ok

SentimentText(r) == Get(response[r].val, "text").s

\* C6 as claimed: whenever the provider's text is valid JSON, the response
\* is 200 with exactly the value the text denotes.
C6_Verbatim ==
    \A r \in Reqs :
        (SentimentJson(r) /\ Done(r)) =>
            Answer(r).status = 200 /\ SameJson(Answer(r).body, SentimentText(r))

\* Every number of the text lies within the range of a double.
NumbersInRange(text) ==
    \A i \in DOMAIN text :
        text[i].tk = "num" =>
            \/ text[i].m = 0
            \/ LET d == text[i].e + Digits(text[i].m) - 1
               IN d >= -307 /\ d <= 307

RECURSIVE Members(_)
\* The number of object members in a value, nested ones included.
Members(v) ==
    IF v.k = "obj"
    THEN LET RECURSIVE Sum(_)
             Sum(i) == IF i > Len(v.members) THEN 0
                       ELSE 1 + Members(v.members[i][2]) + Sum(i + 1)
         IN Sum(1)
    ELSE IF v.k = "arr"
    THEN LET RECURSIVE Sum(_)
             Sum(i) == IF i > Len(v.items) THEN 0 ELSE Members(v.items[i]) + Sum(i + 1)
         IN Sum(1)
    ELSE 0

\* No object of the JSON text repeats a key: the value it is read as has as
\* many members as the text has colons.
NoRepeatedKey(text) ==
    Members(JSONparse(text).val) = Cardinality({i \in DOMAIN text : text[i] = P(":")})

\* C6 amended: whenever the provider's text is valid JSON the response is
\* 200; it is the value the text denotes when every number of the text lies
\* within the range of a double (and has at most nine digits) and no object
\* repeats a key.
C6_VerbatimInRange ==
    \A r \in Reqs :
        (SentimentJson(r) /\ Done(r)) =>
            /\ Answer(r).status = 200
            /\ (NumbersInRange(SentimentText(r)) /\ NoRepeatedKey(SentimentText(r))) =>
                   SameJson(Answer(r).body, SentimentText(r))

\* The example of the specification has been returned.
C6_Witness ==
    \E r \in Reqs :
        /\ SentimentJson(r)
        /\ SentimentText(r) = SentimentExample
        /\ Done(r)
        /\ Answer(r).status = 200
        /\ Answer(r).body = SentimentExample

\* ----------------------------------------------------------------------
\* C7
\* ----------------------------------------------------------------------
\* The search-engine URL of each query the provider may report, written out.
QueryUrl(query) ==
    CASE query = S("BTC price") -> S("https://www.google.com/search?q=BTC%20price")
      [] query = S("ETH news") -> S("https://www.google.com/search?q=ETH%20news")
      [] query = S("a&b=c/d?") -> S("https://www.google.com/search?q=a%26b%3Dc%2Fd%3F")

\* The web search queries of the first candidate, <<>> when the candidates,
\* the grounding metadata or the list is absent.
WebSearchQueries(v) ==
    LET candidates == Get(v, "candidates")
    IN IF candidates.k # "arr" \/ candidates.items = <<>> THEN <<>>
       ELSE LET metadata == Get(candidates.items[1], "groundingMetadata")
            IN IF metadata.k # "obj" \/ Get(metadata, "webSearchQueries").k # "arr"
               THEN <<>>
               ELSE Get(metadata, "webSearchQueries").items

\* C7: on the chat route, for a provider response whose first candidate lists
\* n web search queries, the response is 200 and its sources are n entries
\* in the order of the queries, entry i with the query as title and the
\* search URL of the encoded query as uri, and nothing else; sources is the
\* empty array when the candidates, the metadata or the list is absent.
C7_Sources ==
    \A r \in Reqs :
        (req[r].path = Chat /\ HasResolved(r) /\ Done(r)) =>
            LET queries == WebSearchQueries(response[r].val)
                sources == Get(AnswerJson(r).val, "sources")
            IN /\ Answer(r).status = 200
               /\ sources.k = "arr"
               /\ Len(sources.items) = Len(queries)
               /\ \A i \in DOMAIN queries :
                     sources.items[i] = Obj(<<Prop("uri", QueryUrl(queries[i])),
                                              Prop("title", queries[i])>>)

\* The provider reported "BTC price" and "ETH news" and the response lists
\* two sources.
C7_Witness ==
    \E r \in Reqs :
        /\ req[r].path = Chat
        /\ HasResolved(r)
        /\ WebSearchQueries(response[r].val) = <<S("BTC price"), S("ETH news")>>
        /\ Done(r)
        /\ Len(Get(AnswerJson(r).val, "sources").items) = 2

\* ----------------------------------------------------------------------
\* C8
\* ----------------------------------------------------------------------
\* C8: on the chat route one outbound request is built for a valid request:
\* its contents are one user entry, whose parts are the text part holding
\* the prompt alone when the request has no file, and the inline-data part
\* {data: base64Data, mimeType} followed by that text part when it has one.
C8_Parts ==
    \A r \in Reqs :
        (req[r].path = Chat /\ Posted(r) /\ ~FieldMissing(r)) =>
            LET file == Get(req[r].body, "file")
                text == Obj(<<Prop("text", Get(req[r].body, "prompt"))>>)
                inline == Obj(<<Prop("inlineData",
                                     Obj(<<Prop("data", Get(file, "base64Data")),
                                           Prop("mimeType", Get(file, "mimeType"))>>))>>)
            IN /\ Len(out[r]) = 1
               /\ Get(out[r][1], "contents") =
                     Arr(<<Obj(<<Prop("role", S("user")),
                                 Prop("parts", Arr(IF file \in {Undefined, Null}
                                                   THEN <<text>>
                                                   ELSE <<inline, text>>))>>)>>)

\* A chat request with a file has been sent on with two parts.
C8_Witness ==
    \E r \in Reqs :
        /\ req[r].path = Chat
        /\ Get(req[r].body, "file") = File
        /\ Len(out[r]) = 1
        /\ Len(Get(Get(out[r][1], "contents").items[1], "parts").items) = 2

\* ----------------------------------------------------------------------
\* C9
\* ----------------------------------------------------------------------
\* The provider has failed the outbound call of r: the call rejected, or
\* was answered with a status that is no success.
ProviderFailed(r) ==
    \/ HasRejected(r)
    \/ HasResolved(r) /\ req[r].path \in {GenerateImage, Tts} /\ ~response[r].val.ok

\* C9: whatever the interleaving of the requests, at most one outbound call
\* is made and at most one response is sent for each; a finished request has
\* exactly one response; after a failure of the provider there is still one
\* call only, a rejection is answered 500 in the step that delivers it, and
\* an error status once its body is read.
C9_SingleAttempt ==
    \A r \in Reqs :
        /\ Len(out[r]) <= 1
        /\ Len(res[r]) <= 1
        /\ Done(r) => Len(res[r]) = 1
        /\ HasRejected(r) => Done(r)
        /\ ProviderFailed(r) =>
              /\ Len(out[r]) = 1
              /\ pc[r] \in {"text", "done"}
              /\ Done(r) => Answer(r).status = 500

\* One request has been answered 500 after its call rejected while another
\* is still waiting for the provider.
C9_Witness ==
    \E r1, r2 \in Reqs :
        /\ r1 # r2
        /\ HasRejected(r1)
        /\ Done(r1)
        /\ Answer(r1).status = 500
        /\ pc[r2] \in {"generateContent", "fetch"}
        /\ Len(out[r2]) = 1

\* ----------------------------------------------------------------------
\* C10
\* ----------------------------------------------------------------------
\* C10: every 200 response of the speech route holds both audioData and
\* mimeType, each a text taken from the inline payload of the first part of
\* the first candidate.
C10_TtsResponseShape ==
    \A r \in Reqs :
        (req[r].path = Tts /\ Done(r) /\ Answer(r).status = 200) =>
            LET result == JSONparse(response[r].val.body).val
                inlineData == Get(At(Get(Get(At(Get(result, "candidates"), 0),
                                             "content"), "parts"), 0), "inlineData")
            IN /\ Get(AnswerJson(r).val, "audioData").k = "str"
               /\ Get(AnswerJson(r).val, "mimeType").k = "str"
               /\ Get(AnswerJson(r).val, "audioData") = Get(inlineData, "data")
               /\ Get(AnswerJson(r).val, "mimeType") = Get(inlineData, "mimeType")
====
